---- MODULE Spec2Model ----
(***************************************************************************)
(* BrainStat: mesh topology extraction (brainstat/mesh/utils.py) and the   *)
(* fixed-effects linear model fit (surfstat/python/SurfStatLinMod.py).     *)
(*                                                                         *)
(* Arrays are sequences (1-based positions hold the 0-based numpy rows);   *)
(* an edge or a triangle row is a tuple of integers.  The arguments of a   *)
(* call are drawn in the initial state; the call is one action, which runs *)
(* the whole function and records what the caller sees afterwards.         *)
(***************************************************************************)
EXTENDS Integers, Sequences, FiniteSets, TLC

VARIABLES
    op,     \* name of the function called ("none" before the call)
    surf,   \* the mesh argument of mesh_edges
    mask,   \* the mask argument (None or a boolean vector)
    argEdges, \* the edge array given to a direct _mask_edges call
    ret,    \* outcome of the mesh call: [kind, exc, at, edg]
    retIdx, \* the retention vector _mask_edges returned
    Y,      \* the caller's response array (mutated in place by the call)
    Yin,    \* the values that array held when the call was made
    M,      \* the caller's design argument
    slm,    \* outcome of the py_SurfStatLinMod call
    slm1,   \* first fitted model given to f_test
    slm2,   \* second fitted model given to f_test
    ftest   \* outcome of the f_test call

vars == <<op, surf, mask, argEdges, ret, retIdx, Y, Yin, M, slm, slm1, slm2, ftest>>

\* mask=None, and an outcome before any call
NoMask == [given |-> FALSE, v |-> <<>>]
NoRet == [at |-> "", edg |-> <<>>, exc |-> "", kind |-> "none"]
\* no fit yet, and no array argument (the mesh specifications)
NoFit ==
    [SSE |-> <<>>, X |-> <<>>, at |-> "", coef |-> <<>>, df |-> 0, exc |-> "", kind |-> "none"]
NoArray == [a |-> <<>>, dtype |-> "float64", nd |-> 0]
\* no model given to f_test, and no comparison yet
NoModel == [SSE |-> <<>>, df |-> 0]
NoFTest == [F |-> <<>>, df |-> <<>>, kind |-> "none"]

(***************************************************************************)
(* Bounds of the model.                                                    *)
(***************************************************************************)
MaxVert == 3        \* triangle vertex indices are 1..MaxVert
MaxTri == 2         \* at most this many triangles in a triangle list
MaxI == 3           \* lattice shapes are (1..MaxI, 1..MaxJ, 1..MaxK)
MaxJ == 3
MaxK == 3
MaskVerts == 4      \* a direct _mask_edges call indexes vertices 0..MaskVerts-1
MaxEdges == 2       \* and its edge array has at most this many rows
MaxObs == 3         \* observations n of Y and rows of a 2-D M: 1..MaxObs
MaxVtx == 2         \* vertices v of Y: 1..MaxVtx
MaxComp == 2        \* components k of a 3-D Y: 2..MaxComp
MaxCells == 8       \* a response array has at most this many entries
MaxPred == 2        \* length of a 1-D M: 1..MaxPred
MaxDf == 3          \* degrees of freedom of a model given to f_test: 1..MaxDf
MaxHoles == 1       \* unoccupied voxels of a lattice larger than MaxFullVox
MaxFullVox == 8     \* lattices of up to this many voxels take any occupancy

(***************************************************************************)
(* numpy helpers                                                           *)
(***************************************************************************)
\* lexicographic order on integer rows of equal length (np.unique, axis=0)
RowLess(r, s) ==
    \E i \in 1..Len(r) :
        /\ r[i] < s[i]
        /\ \A j \in 1..(i - 1) : r[j] = s[j]

RECURSIVE SortedRows(_)
SortedRows(S) ==
    IF S = {} THEN <<>>
    ELSE LET m == CHOOSE r \in S : \A s \in S \ {r} : RowLess(r, s)
         IN  <<m>> \o SortedRows(S \ {m})

\* np.unique(rows, axis=0): the distinct rows, sorted lexicographically
UniqueRows(rows) == SortedRows({rows[i] : i \in DOMAIN rows})

\* np.unique(Y) of a 2-column integer array: its distinct values, ascending
RECURSIVE SortedInts(_)
SortedInts(S) ==
    IF S = {} THEN <<>>
    ELSE LET m == CHOOSE x \in S : \A y \in S : x <= y
         IN  <<m>> \o SortedInts(S \ {m})

\* a row left as it is
SortTripleNoSort(t) == t

\* np.sort(tri, axis=1) on one row of three
SortTriple(t) ==
    LET lo == CHOOSE x \in {t[1], t[2], t[3]} : \A y \in {t[1], t[2], t[3]} : x <= y
        hi == CHOOSE x \in {t[1], t[2], t[3]} : \A y \in {t[1], t[2], t[3]} : x >= y
    IN  <<lo, t[1] + t[2] + t[3] - lo - hi, hi>>

\* np.sort(surf["tri"], axis=1)
SortTriRows(tri) == [r \in DOMAIN tri |-> SortTriple(tri[r])]

(***************************************************************************)
(* mesh_edges, triangle branch                                             *)
(***************************************************************************)
\* np.concatenate((np.concatenate((tri[:,[0,1]], tri[:,[0,2]])), tri[:,[1,2]]))
TriPairs(tri) ==
    [r \in DOMAIN tri |-> <<tri[r][1], tri[r][2]>>]
    \o [r \in DOMAIN tri |-> <<tri[r][1], tri[r][3]>>]
    \o [r \in DOMAIN tri |-> <<tri[r][2], tri[r][3]>>]

\* edg - 1 (also used by the lattice branch)
MinusOne(edg) == [r \in DOMAIN edg |-> <<edg[r][1] - 1, edg[r][2] - 1>>]

\* the triangle branch without np.unique
TriEdgesNoUnique(triangles) == MinusOne(TriPairs(SortTriRows(triangles)))

TriEdges(triangles) == MinusOne(UniqueRows(TriPairs(SortTriRows(triangles))))

(***************************************************************************)
(* mesh_edges, lattice branch                                              *)
(*                                                                         *)
(* A lattice is [shape |-> <<I, J, K>> or <<I, J>>, at |-> occupancy by    *)
(* 1-based coordinate tuple].  Template indices c are 0-based positions in *)
(* one slice, p = (i-1) + I*(j-1).                                         *)
(***************************************************************************)
\* surf["lat"] = np.expand_dims(surf["lat"], axis=2) when ndim == 2
ExpandDims(lat) ==
    IF Len(lat.shape) = 2
    THEN [at |-> [c \in (1..lat.shape[1]) \X (1..lat.shape[2]) \X {1}
                    |-> lat.at[<<c[1], c[2]>>]],
          shape |-> <<lat.shape[1], lat.shape[2], 1>>]
    ELSE lat

\* i = i.T.flatten("F"), j = j.T.flatten("F") of np.meshgrid(a, b)
GridI(I, p) == (p % I) + 1
GridJ(I, p) == (p \div I) + 1

\* np.where((np.remainder(i + j, 2) == f) & cond)[0], cond given as the set
\* of the grid positions <<i, j>> that satisfy it
Where(I, J, f, cond) ==
    SelectSeq([q \in 1..(I * J) |-> q - 1],
              LAMBDA p : /\ (GridI(I, p) + GridJ(I, p)) % 2 = f
                         /\ <<GridI(I, p), GridJ(I, p)>> \in cond)

c1(I, J, f)  == Where(I, J, f, {g \in (1..I) \X (1..J) : g[1] < I /\ g[2] < J})
c2(I, J, f)  == Where(I, J, f, {g \in (1..I) \X (1..J) : g[1] > 1 /\ g[2] < J})
c11(I, J, f) == Where(I, J, f, {g \in (1..I) \X (1..J) : g[1] = I /\ g[2] < J})
c21(I, J, f) == Where(I, J, f, {g \in (1..I) \X (1..J) : g[1] = I /\ g[2] > 1})
c12(I, J, f) == Where(I, J, f, {g \in (1..I) \X (1..J) : g[1] < I /\ g[2] = J})
c22(I, J, f) == Where(I, J, f, {g \in (1..I) \X (1..J) : g[1] > 1 /\ g[2] = J})

\* one column pair of an np.block([[...], [...]]).T + 1
Col(c, a, b) == [r \in DOMAIN c |-> <<c[r] + a + 1, c[r] + b + 1>>]

\* bottom slice
edg0(I, J, f) ==
    Col(c1(I, J, f), 0, 1) \o Col(c1(I, J, f), 0, I) \o Col(c1(I, J, f), 0, 1 + I)
    \o Col(c2(I, J, f), -1, 0) \o Col(c2(I, J, f), -1, I - 1)
    \o Col(c2(I, J, f), 0, I - 1)
    \o Col(c11(I, J, f), 0, I) \o Col(c21(I, J, f), -I, 0)
    \o Col(c12(I, J, f), 0, 1) \o Col(c22(I, J, f), -1, 0)

\* between slices
edg1(I, J, f) ==
    LET IJ == I * J
    IN  Col(c1(I, J, f), 0, IJ) \o Col(c1(I, J, f), 0, 1 + IJ)
        \o Col(c1(I, J, f), 0, I + IJ)
        \o Col(c11(I, J, f), 0, IJ) \o Col(c11(I, J, f), 0, I + IJ)
        \o Col(c12(I, J, f), 0, IJ) \o Col(c12(I, J, f), 0, 1 + IJ)

\* edg2 with its first column pair taken at c2 instead of c2 - 1
edg2AtC2(I, J, f) ==
    LET IJ == I * J
    IN  Col(c2(I, J, f), 0, IJ) \o Col(c2(I, J, f), 0, IJ - 1)
        \o Col(c2(I, J, f), I - 1, IJ - 1)
        \o Col(c21(I, J, f), -I, IJ - I) \o Col(c21(I, J, f), 0, IJ - I)
        \o Col(c22(I, J, f), -1, IJ - 1) \o Col(c22(I, J, f), 0, IJ - 1)

edg2(I, J, f) ==
    LET IJ == I * J
    IN  Col(c2(I, J, f), -1, IJ - 1) \o Col(c2(I, J, f), 0, IJ - 1)
        \o Col(c2(I, J, f), I - 1, IJ - 1)
        \o Col(c21(I, J, f), -I, IJ - I) \o Col(c21(I, J, f), 0, IJ - I)
        \o Col(c22(I, J, f), -1, IJ - 1) \o Col(c22(I, J, f), 0, IJ - 1)

n1(I, J) == (I - 1) * (J - 1) * 6 + (I - 1) * 3 + (J - 1) * 3 + 1
\* n2 without the (J - 1) edges of the last row
n2Short(I, J) == (I - 1) * (J - 1) * 3 + (I - 1)

n2(I, J) == (I - 1) * (J - 1) * 3 + (I - 1) + (J - 1)

\* colon(a, b, step) of brainstat.stats.utils: a, a+step, ... up to b inclusive
Colon(a, b, step) ==
    IF b < a THEN <<>>
    ELSE [r \in 1..(((b - a) \div step) + 1) |-> a + (r - 1) * step]

\* rows + off
Shift(rows, off) == [r \in DOMAIN rows |-> <<rows[r][1] + off, rows[r][2] + off>>]

\* np.block([[edg0], [edg1], [edg2], [IJ, 2 * IJ]]) for f = 0 and
\* np.block([[edg0], [edg2], [edg1], [IJ, 2 * IJ]]) for f = 1
SliceBlock(I, J, f) ==
    IF f = 1
    THEN edg0(I, J, f) \o edg2(I, J, f) \o edg1(I, J, f) \o <<<<I * J, 2 * I * J>>>>
    ELSE edg0(I, J, f) \o edg1(I, J, f) \o edg2(I, J, f) \o <<<<I * J, 2 * I * J>>>>

\* One slice assignment edg[first + np.arange(0, count), :] = rows, as the
\* sequence of single-row writes [row |-> 0-based row, val |-> edge];
\* a value array of another length cannot be assigned (bad |-> TRUE).
Assign(first, count, rows) ==
    [bad |-> Len(rows) # count,
     writes |-> [r \in 1..count |->
                    [row |-> first + r - 1,
                     val |-> IF r <= Len(rows) THEN rows[r] ELSE <<0, 0>>]]]

\* edg0[np.arange(0, n2), :] fails when edg0 has fewer than n2 rows
TopBlock(I, J, f) ==
    LET e == edg0(I, J, f)
    IN  SubSeq(e, 1, IF Len(e) < n2(I, J) THEN Len(e) ELSE n2(I, J))

RECURSIVE ConcatAssigns(_)
ConcatAssigns(as) ==
    IF as = <<>> THEN [bad |-> FALSE, writes |-> <<>>]
    ELSE LET rest == ConcatAssigns(Tail(as))
         IN  [bad |-> Head(as).bad \/ rest.bad,
              writes |-> Head(as).writes \o rest.writes]

\* the body of "for f in range(0, 2)" for one f
TemplatePass(I, J, K, f) ==
    LET ks == Colon(IF f = 1 THEN 2 ELSE 1, K - 1, 2)
        tiles == [x \in DOMAIN ks |->
                    Assign((ks[x] - 1) * n1(I, J), n1(I, J),
                           Shift(SliceBlock(I, J, f), (ks[x] - 1) * I * J))]
        top == IF (K + 1) % 2 = f
               THEN <<[bad |-> Len(edg0(I, J, f)) < n2(I, J),
                       writes |-> Assign((K - 1) * n1(I, J), n2(I, J),
                                     Shift(TopBlock(I, J, f), (K - 1) * I * J)).writes]>>
               ELSE <<>>
    IN  ConcatAssigns(tiles \o top)

\* every write of the two passes, in program order
TemplateWrites(I, J, K) ==
    ConcatAssigns(<<TemplatePass(I, J, K, 0), TemplatePass(I, J, K, 1)>>)

\* applying the writes in program order: a row holds the value of the last
\* write to it, or what it held before when no write names it
ApplyWrites(arr, w) ==
    [r \in DOMAIN arr |->
        LET hits == {x \in DOMAIN w : w[x].row + 1 = r}
        IN  IF hits = {} THEN arr[r]
            ELSE w[CHOOSE x \in hits : \A y \in hits : y <= x].val]

\* edg = np.zeros(((K - 1) * n1 + n2, 2)) after the two passes; an unwritten
\* row stays [0, 0]
TemplateRows(I, J, K) ==
    ApplyWrites([r \in 1..((K - 1) * n1(I, J) + n2(I, J)) |-> <<0, 0>>],
                TemplateWrites(I, J, K).writes)

\* the template depends on the shape alone: one evaluation per shape
Shapes == {<<i, j, k>> : i \in 1..MaxI, j \in 1..MaxJ, k \in 1..MaxK}
WritesOf == [sh \in Shapes |-> TemplateWrites(sh[1], sh[2], sh[3])]
TemplateOf == [sh \in Shapes |-> TemplateRows(sh[1], sh[2], sh[3])]
TemplateBad == [sh \in Shapes |-> WritesOf[sh].bad]

\* surf["lat"].T.flatten(): column-major enumeration, i fastest
Flatten(lat) ==
    LET I == lat.shape[1]
        J == lat.shape[2]
        K == lat.shape[3]
    IN  [q \in 1..(I * J * K) |->
            lat.at[<<((q - 1) % I) + 1,
                     (((q - 1) \div I) % J) + 1,
                     ((q - 1) \div (I * J)) + 1>>]]

RECURSIVE CumSum(_)
CumSum(s) ==
    IF s = <<>> THEN <<>>
    ELSE LET init == CumSum(SubSeq(s, 1, Len(s) - 1))
         IN  Append(init, (IF init = <<>> THEN 0 ELSE init[Len(init)]) + s[Len(s)])

\* vid = np.multiply(np.cumsum(flat), flat)
Vid(flat) == LET cs == CumSum(flat) IN [q \in DOMAIN flat |-> cs[q] * flat[q]]

\* a[n] for a python index n: a negative index counts from the end
PyAt(a, n) == IF n < 0 THEN a[Len(a) + n + 1] ELSE a[n + 1]

\* all_idx testing the first endpoint only
InsideLatFirstOnly(flat, row) == PyAt(flat, row[1] - 1) # 0

\* all_idx: both endpoints of the template row lie inside the lattice
InsideLat(flat, row) == PyAt(flat, row[1] - 1) # 0 /\ PyAt(flat, row[2] - 1) # 0


\* vid[edg[all_idx, :] - 1]
Renumber(vid, rows) ==
    [r \in DOMAIN rows |-> <<PyAt(vid, rows[r][1] - 1), PyAt(vid, rows[r][2] - 1)>>]

(***************************************************************************)
(* _make_contiguous and _mask_edges                                        *)
(***************************************************************************)
\* the values of a 2-column array
Values(edges) == {edges[r][c] : r \in DOMAIN edges, c \in {1, 2}}

\* Y[Y == v] = i, in place
Replace(edges, v, i) ==
    [r \in DOMAIN edges |->
        <<IF edges[r][1] = v THEN i ELSE edges[r][1],
          IF edges[r][2] = v THEN i ELSE edges[r][2]>>]

\* for i in range(val.size): Y[Y == val[i]] = i, from position n on
RECURSIVE ContiguousLoop(_, _, _)
ContiguousLoop(edges, val, n) ==
    IF n > Len(val) THEN edges
    ELSE ContiguousLoop(Replace(edges, val[n], n - 1), val, n + 1)

_make_contiguous(edges) == ContiguousLoop(edges, SortedInts(Values(edges)), 1)

\* np.where(~mask): the 0-based indices whose mask entry is false
MissingEdges(m) == {q - 1 : q \in {x \in DOMAIN m : ~m[x]}}

\* the rows whose first endpoint is kept, whatever the second
KeepIdxFirstColumn(edges, m) ==
    [r \in DOMAIN edges |-> edges[r][1] \notin MissingEdges(m)]

\* idx = ~np.any(remove_edges, axis=1)
KeepIdx(edges, m) ==
    [r \in DOMAIN edges |->
        edges[r][1] \notin MissingEdges(m) /\ edges[r][2] \notin MissingEdges(m)]

\* edges[idx, :]
Take(edges, idx) ==
    LET keep == SelectSeq([r \in DOMAIN edges |-> r], LAMBDA r : idx[r])
    IN  [x \in DOMAIN keep |-> edges[keep[x]]]

_mask_edges(edges, m) ==
    [edges |-> _make_contiguous(Take(edges, KeepIdx(edges, m))),
     idx |-> KeepIdx(edges, m)]

(***************************************************************************)
(* mesh_edges                                                              *)
(*                                                                         *)
(* A mesh argument is [cls, has, tri, lat, surf]: cls is the class name,   *)
(* has the keys of a dict or the attributes of an SLM that are not None.   *)
(* A BSPolyData carries its 0-based cells in tri.                          *)
(***************************************************************************)
Returned(edg) == [at |-> "", edg |-> edg, exc |-> "", kind |-> "return"]
Raised(exc, at) == [at |-> at, edg |-> <<>>, exc |-> exc, kind |-> "raise"]

\* if mask is not None: edg, _ = _mask_edges(edg, mask); return edg
Finish(edg, m) == Returned(IF m.given THEN _mask_edges(edg, m.v).edges ELSE edg)

\* the lattice branch, from the template to the renumbered rows
LatEdges(lat0) ==
    LET lat == ExpandDims(lat0)
        I == lat.shape[1]
        J == lat.shape[2]
        K == lat.shape[3]
        flat == Flatten(lat)
        rows == TemplateOf[<<I, J, K>>]
        all_idx == [r \in DOMAIN rows |-> InsideLat(flat, rows[r])]
    IN  MinusOne(Renumber(Vid(flat), Take(rows, all_idx)))

\* brainspace's get_edges on a BSPolyData: the unique edges of its cells
get_edges(cells) == UniqueRows(TriPairs(SortTriRows(cells)))

\* lines 31-40: an SLM is replaced by the dict of its tri or lat; with
\* neither and no surf the ValueError is built but not raised, and the SLM
\* itself reaches the dispatch (class_name is "SLM" holds in CPython, which
\* interns both strings)
Unwrap(s) ==
    IF s.cls = "SLM" /\ "tri" \in s.has
    THEN [cls |-> "dict", has |-> {"tri"}, lat |-> <<>>, surf |-> <<>>, tri |-> s.tri]
    ELSE IF s.cls = "SLM" /\ "lat" \in s.has
    THEN [cls |-> "dict", has |-> {"lat"}, lat |-> s.lat, surf |-> <<>>, tri |-> <<>>]
    ELSE s

RECURSIVE mesh_edges(_, _)
mesh_edges(s, m) ==
    IF s.cls = "SLM" /\ s.has \cap {"tri", "lat"} = {} /\ "surf" \in s.has
    THEN mesh_edges(s.surf, NoMask)
    ELSE LET u == Unwrap(s)
         IN  IF u.cls = "BSPolyData" THEN Finish(get_edges(u.tri), m)
             ELSE IF u.cls = "SLM" THEN Raised("TypeError", "tri in surf")
             ELSE IF "tri" \in u.has THEN Finish(TriEdges(u.tri), m)
             ELSE IF "lat" \in u.has
             THEN IF TemplateBad[ExpandDims(u.lat).shape]
                  THEN Raised("ValueError", "template")
                  ELSE Finish(LatEdges(u.lat), m)
             ELSE Raised("SystemExit", "else")

(***************************************************************************)
(* Numbers of the linear model.  A float is modelled by the exact rational *)
(* <<numerator, denominator>> in lowest terms with a positive denominator: *)
(* np.linalg.pinv, np.dot and the sums are taken without rounding error.   *)
(***************************************************************************)
Abs(x) == IF x < 0 THEN -x ELSE x

RECURSIVE Gcd(_, _)
Gcd(a, b) == IF b = 0 THEN a ELSE Gcd(b, a % b)

Rat(num, den) ==
    LET g == Gcd(Abs(num), Abs(den))
        sg == IF den < 0 THEN -1 ELSE 1
    IN  <<(sg * num) \div g, (sg * den) \div g>>

RInt(x) == <<x, 1>>
RAdd(x, y) == Rat(x[1] * y[2] + y[1] * x[2], x[2] * y[2])
RSub(x, y) == Rat(x[1] * y[2] - y[1] * x[2], x[2] * y[2])
RMul(x, y) == Rat(x[1] * y[1], x[2] * y[2])
RDiv(x, y) == Rat(x[1] * y[2], x[2] * y[1])

\* the cast of a float stored into an int64 array: truncation toward zero
Trunc(x) == RInt((IF x[1] < 0 THEN -1 ELSE 1) * (Abs(x[1]) \div x[2]))

\* storing value x into an array of dtype d
Store(d, x) == IF d = "int64" THEN Trunc(x) ELSE x

RECURSIVE RSum(_)
RSum(xs) == IF xs = <<>> THEN RInt(0) ELSE RAdd(Head(xs), RSum(Tail(xs)))

(***************************************************************************)
(* 2-D arrays are sequences of rows.  An array holds its values: Array(f)  *)
(* is the sequence of the results of f, each computed once.                *)
(***************************************************************************)
Array(f) == f \o <<>>

Rows(A) == Len(A)
Cols(A) == Len(A[1])
Transpose(A) == Array([c \in 1..Cols(A) |-> Array([r \in 1..Rows(A) |-> A[r][c]])])

\* np.dot of two 2-D arrays whose inner dimensions agree
Dot(A, B) ==
    Array([r \in 1..Rows(A) |->
        Array([c \in 1..Cols(B) |->
            RSum(Array([x \in 1..Cols(A) |-> RMul(A[r][x], B[x][c])]))])])

\* A - B, elementwise
MatSub(A, B) ==
    Array([r \in 1..Rows(A) |-> Array([c \in 1..Cols(A) |-> RSub(A[r][c], B[r][c])])])

IsZero(A) == \A r \in 1..Rows(A) : \A c \in 1..Cols(A) : A[r][c] = RInt(0)

\* np.linalg.matrix_rank, for the designs of the model (rank 0 or 1)
MatrixRank(A) == IF IsZero(A) THEN 0 ELSE 1

\* the squared Frobenius norm
Frob2(A) ==
    RSum(Array([r \in 1..Rows(A) |->
        RSum(Array([c \in 1..Cols(A) |-> RMul(A[r][c], A[r][c])]))]))

\* the transpose without the division by the squared norm
PinvUnscaled(A) == Transpose(A)

\* np.linalg.pinv of a matrix of rank at most 1: zero for the zero matrix
\* (no singular value passes the cutoff), else transpose(A) / ||A||_F^2
Pinv(A) ==
    LET f2 == Frob2(A)
    IN  IF IsZero(A)
        THEN Array([c \in 1..Cols(A) |-> Array([r \in 1..Rows(A) |-> RInt(0)])])
        ELSE Array([c \in 1..Cols(A) |-> Array([r \in 1..Rows(A) |-> RDiv(A[r][c], f2)])])

(***************************************************************************)
(* py_SurfStatLinMod(Y, M) with surf=None.                                 *)
(*                                                                         *)
(* An argument is [nd, dtype, a]: nd = 0 a python Number, else the number  *)
(* of dimensions of an ndarray.  The entries a of a response are always    *)
(* held as observations x vertices x components (a Number as 1 x 1 x 1, a  *)
(* 1-D array as 1 x v x 1, a 2-D array as n x v x 1), those of a design as *)
(* rows x columns (a Number as 1 x 1, a 1-D array as 1 x p).               *)
(***************************************************************************)
\* lines 12-21: Y as the (n, v) or (n, v, k) array the fit works on; the
\* reshape of a 1-D array is a view of the caller's array
AsObsArray(Yarg) ==
    IF Yarg.nd = 3 THEN Yarg.a
    ELSE Array([i \in DOMAIN Yarg.a |-> Array([x \in DOMAIN Yarg.a[i] |-> Yarg.a[i][x][1]])])

\* slm['X'] of lines 33-46
DesignOf(Marg, n) ==
    IF Marg.nd = 2 THEN Marg.a ELSE Array([i \in 1..n |-> Marg.a[1]])

\* np.shape(M)[0] at line 83 (a Number M was rebound to np.array([[M]]))
ShapeM0(Marg) ==
    IF Marg.nd = 0 THEN 1 ELSE IF Marg.nd = 1 THEN Len(Marg.a[1]) ELSE Len(Marg.a)

\* two lengths numpy can broadcast against each other
Broadcastable(a, b) == a = b \/ a = 1 \/ b = 1

Fitted(X, df, coef, SSE) ==
    [SSE |-> SSE, X |-> X, at |-> "", coef |-> coef, df |-> df, exc |-> "", kind |-> "return"]
Failed(exc, at) ==
    [SSE |-> <<>>, X |-> <<>>, at |-> at, coef |-> <<>>, df |-> 0, exc |-> exc, kind |-> "raise"]

\* component j of an (n, v, k) array: Y[:, :, j]
Component(Y3, j) ==
    Array([i \in DOMAIN Y3 |-> Array([x \in DOMAIN Y3[i] |-> Y3[i][x][j]])])

\* np.sum(A * B, axis=1): one sum per row, over the columns
SumAxis1(A, B) ==
    Array([i \in 1..Rows(A) |->
        RSum(Array([x \in 1..Cols(A) |-> RMul(A[i][x], B[i][x])]))])

\* np.sum(A * B, axis=0): one sum per column, over the rows
SumAxis0(A, B) ==
    Array([x \in 1..Cols(A) |->
        RSum(Array([i \in 1..Rows(A) |-> RMul(A[i][x], B[i][x])]))])

\* the pairs (j1, j2), j2 <= j1, in the order the loops of lines 112-115 visit
PackedPairs(k) ==
    LET idx(q) == CHOOSE pr \in (1..k) \X (1..k) :
                     /\ pr[2] <= pr[1]
                     /\ ((pr[1] - 1) * pr[1]) \div 2 + pr[2] = q
    IN  Array([q \in 1..((k * (k + 1)) \div 2) |-> idx(q)])

\* lines 105-107: Y[:, :, j] = Y[:, :, j] - np.dot(X, coef[:, :, j]) for
\* every j, written into the caller's array with its dtype
ResidualsInPlace(Y3, X, pinvX, dtype) ==
    LET res == Array([j \in DOMAIN Y3[1][1] |->
                   LET Yj == Component(Y3, j)
                   IN  MatSub(Yj, Dot(X, Dot(pinvX, Yj)))])
    IN  Array([i \in DOMAIN Y3 |-> Array([x \in DOMAIN Y3[i] |->
            Array([j \in DOMAIN Y3[i][x] |-> Store(dtype, res[j][i][x])])])])

\* the univariate fit with slm['coef'] = coef and slm['SSE'] = SSE bound to
\* the computed arrays instead of assigned into the preallocated slices
UnivariateRebind(Y2, Marg, X, pinvX, df) ==
    LET n == Rows(Y2)
        v == Cols(Y2)
    IN  IF n = 1 /\ v = 1 /\ ShapeM0(Marg) > 1
        THEN LET coef == Array([r \in 1..Rows(pinvX) |->
                             Array([c \in 1..Cols(pinvX) |->
                                 RMul(pinvX[r][c], Y2[1][1])])])
                 Yb == Array([r \in 1..Rows(X) |-> Array([c \in 1..Cols(coef) |-> Y2[1][1]])])
                 res == MatSub(Yb, Dot(X, coef))
             IN  Fitted(X, df, coef, <<SumAxis0(res, res)>>)
        ELSE IF Cols(pinvX) # n THEN Failed("ValueError", "line 88")
        ELSE LET coef == Dot(pinvX, Y2)
                 res == MatSub(Y2, Dot(X, coef))
             IN  Fitted(X, df, coef, <<SumAxis0(res, res)>>)

\* lines 77-95, the univariate fit of an (n, v) array
Univariate(Y2, Marg, X, pinvX, df) ==
    LET n == Rows(Y2)
        v == Cols(Y2)
    IN  IF n = 1 /\ v = 1 /\ ShapeM0(Marg) > 1
        THEN \* coef = pinvX * Y[0][0] has shape (p, rows of X)
             IF Rows(X) # 1 THEN Failed("ValueError", "line 94")
             ELSE LET coef == Array([r \in 1..Rows(pinvX) |->
                                  Array([c \in 1..Cols(pinvX) |->
                                      RMul(pinvX[r][c], Y2[1][1])])])
                      res == MatSub(Y2, Dot(X, coef))
                  IN  Fitted(X, df, coef, <<SumAxis0(res, res)>>)
        ELSE IF Cols(pinvX) # n THEN Failed("ValueError", "line 88")
        ELSE LET coef == Dot(pinvX, Y2)
                 res == MatSub(Y2, Dot(X, coef))
             IN  Fitted(X, df, coef, <<SumAxis0(res, res)>>)

\* lines 97-117, the multivariate fit of an (n, v, k) array whose residuals
\* res are already in place
Multivariate(Y3, res, X, pinvX, df) ==
    LET n == Len(Y3)
        v == Len(Y3[1])
        k == Len(Y3[1][1])
        pairs == PackedPairs(k)
        coefs == Array([j \in 1..k |-> Dot(pinvX, Component(Y3, j))])
        coef == Array([r \in 1..Rows(pinvX) |-> Array([x \in 1..v |->
                    Array([j \in 1..k |-> coefs[j][r][x]])])])
        comps == Array([j \in 1..k |-> Component(res, j)])
        sums == Array([q \in DOMAIN pairs |->
                    SumAxis1(comps[pairs[q][1]], comps[pairs[q][2]])])
    IN  \* SSE[j, :] = <array of shape (n,)> needs n = v, or n = 1 to broadcast
        IF ~(n = v \/ n = 1)
        THEN Failed("ValueError", "line 114")
        ELSE Fitted(X, df, coef,
                    Array([q \in DOMAIN pairs |->
                        Array([x \in 1..v |-> sums[q][IF n = 1 THEN 1 ELSE x]])]))

\* the call: [slm |-> what it returns or raises, Y |-> the caller's array
\* afterwards]
py_SurfStatLinMod(Yarg, Marg) ==
    LET Y0 == AsObsArray(Yarg)
        n == Len(Y0)
        X == DesignOf(Marg, n)
        pinvX == Pinv(X)
        df == n - MatrixRank(X)
    IN  IF Marg.nd = 2 /\ ~Broadcastable(Rows(X), n)
        THEN [Y |-> Yarg, slm |-> Failed("ValueError", "line 47")]
        ELSE IF Yarg.nd # 3
        THEN [Y |-> Yarg, slm |-> Univariate(Y0, Marg, X, pinvX, df)]
        ELSE IF Rows(X) # n
        THEN [Y |-> Yarg, slm |-> Failed("ValueError", "line 106")]
        ELSE LET res == ResidualsInPlace(Y0, X, pinvX, Yarg.dtype)
             IN  [Y |-> [Yarg EXCEPT !.a = res],
                  slm |-> Multivariate(Y0, res, X, pinvX, df)]

(***************************************************************************)
(* f_test(slm1, slm2) of brainstat.stats.SLM, for two univariate fitted    *)
(* models: a model is [df, SSE], SSE holding its single row.  The function *)
(* is written from its contract: the model of the larger df is the reduced *)
(* one, F = ((SSE_reduced - SSE_full) / (df_reduced - df_full)) /          *)
(* (SSE_full / df_full) per vertex with df (df_reduced - df_full, df_full),*)
(* a vertex whose SSE_full is zero holds not-a-number, and two models of   *)
(* equal df have no defined comparison.                                    *)
(***************************************************************************)
NaN == <<0, 0>>

\* the F value of one vertex
FValue(sseR, sseF, dfR, dfF) ==
    IF sseF = RInt(0) THEN NaN
    ELSE RDiv(RDiv(RSub(sseR, sseF), RInt(dfR - dfF)), RDiv(sseF, RInt(dfF)))

Compared(F, df) == [F |-> F, df |-> df, kind |-> "return"]
Undefined == [F |-> <<>>, df |-> <<>>, kind |-> "undefined"]

\* the comparison with slm1 taken as the reduced model whatever the df
f_testByPosition(s1, s2) ==
    IF s1.df = s2.df THEN Undefined
    ELSE Compared(Array([x \in DOMAIN s1.SSE[1] |->
                      FValue(s1.SSE[1][x], s2.SSE[1][x], s1.df, s2.df)]),
                  <<s1.df - s2.df, s2.df>>)

f_test(s1, s2) ==
    IF s1.df = s2.df THEN Undefined
    ELSE LET reduced == IF s1.df > s2.df THEN s1 ELSE s2
             full == IF s1.df > s2.df THEN s2 ELSE s1
         IN  Compared(Array([x \in DOMAIN full.SSE[1] |->
                          FValue(reduced.SSE[1][x], full.SSE[1][x], reduced.df, full.df)]),
                      <<reduced.df - full.df, full.df>>)

(***************************************************************************)
(* Inputs                                                                  *)
(***************************************************************************)
SeqsUpTo(S, n) == UNION {[1..k -> S] : k \in 0..n}

Triangles == (1..MaxVert) \X (1..MaxVert) \X (1..MaxVert)
TriLists == SeqsUpTo(Triangles, MaxTri)

DictTri(tri) ==
    [cls |-> "dict", has |-> {"tri"}, lat |-> <<>>, surf |-> <<>>, tri |-> tri]
DictLat(lat) ==
    [cls |-> "dict", has |-> {"lat"}, lat |-> lat, surf |-> <<>>, tri |-> <<>>]

\* the subsets of S of at most n elements
RECURSIVE SubsetsUpTo(_, _)
SubsetsUpTo(S, n) ==
    IF n = 0 THEN {{}}
    ELSE LET P == SubsetsUpTo(S, n - 1)
         IN  P \cup {q \cup {x} : q \in P, x \in S}

\* occupancies of a set of voxel coordinates: at most MaxHoles holes, or
\* empty, or anything when the lattice is small
Occupancies(cells) ==
    LET holes == IF Cardinality(cells) <= MaxFullVox
                 THEN SUBSET cells
                 ELSE SubsetsUpTo(cells, MaxHoles) \cup {cells}
    IN  {[c \in cells |-> IF c \in h THEN 0 ELSE 1] : h \in holes}

Lattices3 ==
    UNION {{[at |-> o, shape |-> sh] :
              o \in Occupancies((1..sh[1]) \X (1..sh[2]) \X (1..sh[3]))} :
           sh \in Shapes}

Lattices2 ==
    UNION {{[at |-> o, shape |-> sh] : o \in Occupancies((1..sh[1]) \X (1..sh[2]))} :
           sh \in (1..MaxI) \X (1..MaxJ)}

(***************************************************************************)
(* Calls.  The arguments are drawn in the initial state; the one action of *)
(* a specification runs the function on them and records the outcome.      *)
(***************************************************************************)
LinModIdle == /\ Y = NoArray /\ Yin = NoArray /\ M = NoArray /\ slm = NoFit

FTestIdle == /\ slm1 = NoModel /\ slm2 = NoModel /\ ftest = NoFTest

MeshIdle == /\ surf = DictTri(<<>>) /\ mask = NoMask /\ argEdges = <<>>
            /\ ret = NoRet /\ retIdx = <<>>

\* mesh_edges(surf, mask)
MeshEdges ==
    /\ op = "none"
    /\ op' = "mesh_edges"
    /\ ret' = mesh_edges(surf, mask)
    /\ UNCHANGED <<surf, mask, argEdges, retIdx, Y, Yin, M, slm, slm1, slm2, ftest>>

\* mesh_edges({"tri": tri})
InitTri ==
    /\ op = "none"
    /\ surf \in {DictTri(tri) : tri \in TriLists}
    /\ mask = NoMask /\ argEdges = <<>> /\ ret = NoRet /\ retIdx = <<>>
    /\ LinModIdle
    /\ FTestIdle

SpecTri == InitTri /\ [][MeshEdges]_vars

\* mesh_edges({"lat": lat}) with a 3-D or a 2-D lattice
InitLat ==
    /\ op = "none"
    /\ surf \in {DictLat(lat) : lat \in Lattices3 \cup Lattices2}
    /\ mask = NoMask /\ argEdges = <<>> /\ ret = NoRet /\ retIdx = <<>>
    /\ LinModIdle
    /\ FTestIdle

SpecLat == InitLat /\ [][MeshEdges]_vars

\* _mask_edges(edges, mask) called on its own
MaskEdges ==
    /\ op = "none"
    /\ op' = "_mask_edges"
    /\ ret' = Returned(_mask_edges(argEdges, mask.v).edges)
    /\ retIdx' = _mask_edges(argEdges, mask.v).idx
    /\ UNCHANGED <<surf, mask, argEdges, Y, Yin, M, slm, slm1, slm2, ftest>>

BoolVectors(n) == [1..n -> BOOLEAN]

InitMask ==
    /\ op = "none"
    /\ argEdges \in SeqsUpTo((0..(MaskVerts - 1)) \X (0..(MaskVerts - 1)), MaxEdges)
    /\ mask \in {[given |-> TRUE, v |-> m] : m \in BoolVectors(MaskVerts)}
    /\ surf = DictTri(<<>>) /\ ret = NoRet /\ retIdx = <<>>
    /\ LinModIdle
    /\ FTestIdle

SpecMask == InitMask /\ [][MaskEdges]_vars

\* the mesh forms mesh_edges is given: dicts and SLM objects with or without
\* a representation, BSPolyData, an SLM that only wraps a surface
SLMOf(has, tri, lat, inner) ==
    [cls |-> "SLM", has |-> has, lat |-> lat, surf |-> inner, tri |-> tri]
PolyData(cells) ==
    [cls |-> "BSPolyData", has |-> {}, lat |-> <<>>, surf |-> <<>>, tri |-> cells]
DictOther(keys) ==
    [cls |-> "dict", has |-> keys, lat |-> <<>>, surf |-> <<>>, tri |-> <<>>]

OneTriangle == {<<t>> : t \in Triangles}
ZeroBased(tri) == [r \in DOMAIN tri |-> <<tri[r][1] - 1, tri[r][2] - 1, tri[r][3] - 1>>]
SmallLattices == {lat \in Lattices2 : lat.shape[1] * lat.shape[2] <= MaskVerts}

MeshForms ==
    {DictTri(tri) : tri \in OneTriangle}
    \cup {DictLat(lat) : lat \in SmallLattices}
    \cup {PolyData(ZeroBased(tri)) : tri \in OneTriangle}
    \cup {SLMOf({"tri"}, tri, <<>>, <<>>) : tri \in OneTriangle}
    \cup {SLMOf({"lat"}, <<>>, lat, <<>>) : lat \in SmallLattices}
    \cup {SLMOf({"surf"}, <<>>, <<>>, PolyData(ZeroBased(tri))) : tri \in OneTriangle}
    \cup {SLMOf({}, <<>>, <<>>, <<>>)}
    \cup {DictOther(keys) : keys \in {{}, {"coord"}}}

InitMesh ==
    /\ op = "none"
    /\ surf \in MeshForms
    /\ mask \in {NoMask} \cup {[given |-> TRUE, v |-> m] : m \in BoolVectors(MaskVerts)}
    /\ argEdges = <<>> /\ ret = NoRet /\ retIdx = <<>>
    /\ LinModIdle
    /\ FTestIdle

SpecMesh == InitMesh /\ [][MeshEdges]_vars

\* the entries the response and design arrays of the model take
YValues == {0, 1}
XValues == {0, 1}

Vectors(S, n) == [1..n -> {RInt(x) : x \in S}]
Matrices(S, n, v) == [1..n -> Vectors(S, v)]
Cubes(S, n, v, k) == [1..n -> [1..v -> Vectors(S, k)]]

\* response arguments
NumberY(x) == [a |-> <<<<<<RInt(x)>>>>>>, dtype |-> "float64", nd |-> 0]
ArrayY1(d, vec) == [a |-> <<[x \in DOMAIN vec |-> <<vec[x]>>]>>, dtype |-> d, nd |-> 1]
ArrayY2(d, mat) ==
    [a |-> [i \in DOMAIN mat |-> [x \in DOMAIN mat[i] |-> <<mat[i][x]>>]],
     dtype |-> d, nd |-> 2]
ArrayY3(d, cube) == [a |-> cube, dtype |-> d, nd |-> 3]

\* design arguments
NumberM(x) == [a |-> <<<<RInt(x)>>>>, dtype |-> "float64", nd |-> 0]
ArrayM1(vec) == [a |-> <<vec>>, dtype |-> "float64", nd |-> 1]
ArrayM2(mat) == [a |-> mat, dtype |-> "float64", nd |-> 2]

\* the scenario of the specification: three observations 2, 4, 6 of one vertex
ScenarioY == ArrayY2("float64", <<<<RInt(2)>>, <<RInt(4)>>, <<RInt(6)>>>>)

Responses ==
    {NumberY(x) : x \in YValues}
    \cup UNION {{ArrayY1("float64", a) : a \in Vectors(YValues, v)} : v \in 1..MaxVtx}
    \cup UNION {{ArrayY2("float64", a) : a \in Matrices(YValues, sh[1], sh[2])} :
                  sh \in {x \in (1..MaxObs) \X (1..MaxVtx) : x[1] * x[2] <= MaxCells}}
    \cup UNION {{ArrayY3(d, a) : a \in Cubes(YValues, sh[1], sh[2], sh[3])} :
                  sh \in {x \in (1..MaxObs) \X (1..MaxVtx) \X (2..MaxComp) :
                            x[1] * x[2] * x[3] <= MaxCells},
                  d \in {"float64", "int64"}}
    \cup {ScenarioY}

\* designs: a Number, a 1-D array (one row, repeated n times), a 2-D array
\* of one column
Designs ==
    {NumberM(x) : x \in XValues}
    \cup UNION {{ArrayM1(a) : a \in Vectors(XValues, p)} : p \in 1..MaxPred}
    \cup UNION {{ArrayM2(a) : a \in Matrices(XValues, m, 1)} : m \in 1..MaxObs}

InitLinMod ==
    /\ op = "none"
    /\ Y \in Responses
    /\ Yin = Y
    /\ M \in Designs
    /\ slm = NoFit
    /\ MeshIdle
    /\ FTestIdle

\* py_SurfStatLinMod(Y, M)
LinMod ==
    /\ op = "none"
    /\ op' = "py_SurfStatLinMod"
    /\ LET out == py_SurfStatLinMod(Y, M)
       IN  slm' = out.slm /\ Y' = out.Y
    /\ UNCHANGED <<Yin, M, surf, mask, argEdges, ret, retIdx, slm1, slm2, ftest>>

SpecLinMod == InitLinMod /\ [][LinMod]_vars

\* fitted models given to f_test: a df and one row of SSE values
SSEValues == {0, 1, 2}
Model(df, sse) == [SSE |-> <<sse>>, df |-> df]

\* the scenario of the specification: df 5 / SSE [20] against df 3 / SSE [6]
ScenarioReduced == Model(5, <<RInt(20)>>)
ScenarioFull == Model(3, <<RInt(6)>>)

Models ==
    UNION {{Model(df, sse) : df \in 1..MaxDf, sse \in Vectors(SSEValues, v)} :
             v \in 1..MaxVtx}
    \cup {ScenarioReduced, ScenarioFull}

InitFTest ==
    /\ op = "none"
    /\ slm1 \in Models
    /\ slm2 \in {m \in Models : Len(m.SSE[1]) = Len(slm1.SSE[1])}
    /\ ftest = NoFTest
    /\ MeshIdle
    /\ LinModIdle

\* f_test(slm1, slm2)
FTest ==
    /\ op = "none"
    /\ op' = "f_test"
    /\ ftest' = f_test(slm1, slm2)
    /\ UNCHANGED <<slm1, slm2, surf, mask, argEdges, ret, retIdx, Y, Yin, M, slm>>

SpecFTest == InitFTest /\ [][FTest]_vars

(***************************************************************************)
(* Properties of the triangle branch                                       *)
(***************************************************************************)
\* the unordered vertex pairs of one triangle, 0-based, smaller first
Min2(a, b) == IF a <= b THEN a ELSE b
Max2(a, b) == IF a <= b THEN b ELSE a
Pair0(a, b) == <<Min2(a, b) - 1, Max2(a, b) - 1>>
PairsOfTriangle(t) == {Pair0(t[1], t[2]), Pair0(t[1], t[3]), Pair0(t[2], t[3])}

\* mesh_edges has run on a dict with key k
CalledOn(k) == op = "mesh_edges" /\ surf.cls = "dict" /\ k \in surf.has

RowSet(rows) == {rows[r] : r \in DOMAIN rows}
NoRepeatedRow(rows) == \A r, q \in DOMAIN rows : r # q => rows[r] # rows[q]

\* C1: mesh_edges on a triangle list (1-based, no mask) returns exactly the
\* pairs {a,b}, {a,c}, {b,c} of its triangles, each in exactly one row,
\* smaller endpoint first, 0-based, and no other row.
C1_TriEdgesExact ==
    CalledOn("tri") =>
        /\ ret.kind = "return"
        /\ RowSet(ret.edg) = UNION {PairsOfTriangle(surf.tri[t]) : t \in DOMAIN surf.tri}
        /\ NoRepeatedRow(ret.edg)
        /\ \A r \in DOMAIN ret.edg : ret.edg[r][1] <= ret.edg[r][2]

\* two different triangles with a common edge were given
C1_Witness ==
    /\ CalledOn("tri")
    /\ Len(surf.tri) = 2
    /\ surf.tri[1] # surf.tri[2]
    /\ Cardinality({surf.tri[1][x] : x \in 1..3}) = 3
    /\ Cardinality({surf.tri[2][x] : x \in 1..3}) = 3
    /\ Len(ret.edg) = 3

\* the triangle lists one step away from tri: two neighbouring triangles
\* exchanged, the vertices of one triangle exchanged or rotated, a copy of
\* one triangle appended
SwapRows(tri, r) ==
    [x \in DOMAIN tri |-> IF x = r THEN tri[r + 1] ELSE IF x = r + 1 THEN tri[r] ELSE tri[x]]
TriVariants(tri) ==
    {SwapRows(tri, r) : r \in 1..(Len(tri) - 1)}
    \cup {[tri EXCEPT ![r] = <<tri[r][2], tri[r][1], tri[r][3]>>] : r \in DOMAIN tri}
    \cup {[tri EXCEPT ![r] = <<tri[r][2], tri[r][3], tri[r][1]>>] : r \in DOMAIN tri}
    \cup {Append(tri, tri[r]) : r \in DOMAIN tri}

\* C2: appending a copy of a triangle, permuting the triangles or permuting
\* the vertices inside a triangle leaves the returned edge list identical
\* (same rows, same order).
C2_TriEdgesInsensitive ==
    CalledOn("tri") =>
        \A other \in TriVariants(surf.tri) : mesh_edges(DictTri(other), NoMask) = ret

\* a list of two different triangles, the first with its vertices unsorted
C2_Witness ==
    /\ CalledOn("tri")
    /\ Len(surf.tri) = 2
    /\ surf.tri[1] # surf.tri[2]
    /\ surf.tri[1][1] > surf.tri[1][2]
    /\ ret.kind = "return"
    /\ Len(ret.edg) >= 3

(***************************************************************************)
(* Properties of the lattice branch                                        *)
(***************************************************************************)
LatOf(s) == ExpandDims(s.lat)
NumOccupied(s) == Cardinality({c \in DOMAIN s.lat.at : s.lat.at[c] # 0})

\* C3: every returned edge of a lattice joins two distinct occupied voxels,
\* each endpoint being the 0-based rank (0..N-1) of an occupied voxel in the
\* column-major enumeration; an empty lattice yields no edge.
C3_LatEdgesOccupied ==
    (CalledOn("lat") /\ Len(surf.lat.shape) = 3) =>
        LET N == NumOccupied(surf)
        IN  /\ ret.kind = "return"
            /\ \A r \in DOMAIN ret.edg :
                  /\ ret.edg[r][1] \in 0..(N - 1)
                  /\ ret.edg[r][2] \in 0..(N - 1)
                  /\ ret.edg[r][1] # ret.edg[r][2]
            /\ (N = 0 => ret.edg = <<>>)

\* a lattice with a hole next to occupied voxels, and edges left
C3_Witness ==
    /\ CalledOn("lat")
    /\ Len(surf.lat.shape) = 3
    /\ surf.lat.shape = <<2, 2, 2>>
    /\ NumOccupied(surf) = 7
    /\ Len(ret.edg) > 0

\* an empty lattice was given
C3_WitnessEmpty ==
    /\ CalledOn("lat")
    /\ surf.lat.shape = <<2, 2, 2>>
    /\ NumOccupied(surf) = 0
    /\ ret.edg = <<>>

FullLattice221(s) ==
    /\ s.lat.shape = <<2, 2, 1>>
    /\ \A c \in DOMAIN s.lat.at : s.lat.at[c] = 1

UnorderedPairs(rows) == {{rows[r][1], rows[r][2]} : r \in DOMAIN rows}

\* C4 as stated: the fully occupied 2x2x1 lattice yields the complete graph
\* on its four voxels, every axis or diagonal neighbour pair exactly once.
C4_CompleteGraph ==
    (CalledOn("lat") /\ FullLattice221(surf)) =>
        /\ UnorderedPairs(ret.edg) = {{a, b} : a, b \in 0..3} \ {{a} : a \in 0..3}
        /\ Len(ret.edg) = 6

\* C4 amended: the fully occupied 2x2x1 lattice yields five edges, the four
\* axis-neighbour pairs and the one diagonal joining voxel (1,1) to voxel
\* (2,2) (ranks 0 and 3), each exactly once as a 0-based row; the other
\* diagonal (ranks 1 and 2) is no edge.
C4_FiveEdges ==
    (CalledOn("lat") /\ FullLattice221(surf)) =>
        /\ ret.kind = "return"
        /\ RowSet(ret.edg) = {<<0, 1>>, <<0, 2>>, <<0, 3>>, <<1, 3>>, <<2, 3>>}
        /\ Len(ret.edg) = 5

C4_Witness ==
    /\ CalledOn("lat")
    /\ FullLattice221(surf)
    /\ ret.kind = "return"

\* the template rows the two passes write, and how many writes they make
RowsWritten(sh) == {WritesOf[sh].writes[x].row : x \in DOMAIN WritesOf[sh].writes}
TemplateLen(sh) == (sh[3] - 1) * n1(sh[1], sh[2]) + n2(sh[1], sh[2])

\* C5: for every lattice shape and occupancy no unordered vertex pair is
\* returned twice, and every row of the preallocated (K-1)*n1+n2 template is
\* written by exactly one generated edge (as many writes as rows, and every
\* row written).
C5_NoDuplicateEdge ==
    CalledOn("lat") =>
        LET sh == LatOf(surf).shape
        IN  /\ ret.kind = "return"
            /\ Cardinality(UnorderedPairs(ret.edg)) = Len(ret.edg)
            /\ ~TemplateBad[sh]
            /\ RowsWritten(sh) = 0..(TemplateLen(sh) - 1)
            /\ Len(WritesOf[sh].writes) = TemplateLen(sh)

\* a fully occupied lattice of three slices: both parity templates are tiled
C5_Witness ==
    /\ CalledOn("lat")
    /\ surf.lat.shape = <<3, 3, 3>>
    /\ NumOccupied(surf) = 27
    /\ Len(ret.edg) = 2 * n1(3, 3) + n2(3, 3)

(***************************************************************************)
(* Properties of _mask_edges                                               *)
(***************************************************************************)
\* the rows of the argument whose two endpoints are mask-true, in order
BothTrue(row) == mask.v[row[1] + 1] /\ mask.v[row[2] + 1]
KeptRows == SelectSeq(argEdges, BothTrue)
NumTrue == Cardinality({q \in DOMAIN mask.v : mask.v[q]})

\* C6: _mask_edges keeps exactly the edges with both endpoints mask-true, in
\* input order, and renumbers their endpoints by an order-preserving map onto
\* 0..m-1, m the number of distinct vertices the kept edges reference; the
\* largest index of the result is below the number of true mask entries.
C6_MaskEdgesContiguous ==
    op = "_mask_edges" =>
        /\ Len(ret.edg) = Len(KeptRows)
        /\ retIdx = [r \in DOMAIN argEdges |-> BothTrue(argEdges[r])]
        /\ \A r, q \in DOMAIN KeptRows : \A c, d \in {1, 2} :
              /\ KeptRows[r][c] < KeptRows[q][d] <=> ret.edg[r][c] < ret.edg[q][d]
              /\ KeptRows[r][c] = KeptRows[q][d] <=> ret.edg[r][c] = ret.edg[q][d]
        /\ Values(ret.edg) = 0..(Cardinality(Values(KeptRows)) - 1)
        /\ \A x \in Values(ret.edg) : x < NumTrue

\* an edge was dropped and both endpoints of the kept edge were renumbered
C6_Witness ==
    /\ op = "_mask_edges"
    /\ argEdges = <<<<0, 1>>, <<1, 3>>>>
    /\ mask.v = <<FALSE, TRUE, TRUE, TRUE>>
    /\ ret.edg = <<<<0, 1>>>>

(***************************************************************************)
(* Properties of the dispatch of mesh_edges                                *)
(***************************************************************************)
\* neither a triangle nor a lattice representation (nor a wrapped surface)
NoRepresentation(s) ==
    \/ s.cls = "dict" /\ s.has \cap {"tri", "lat"} = {}
    \/ s.cls = "SLM" /\ s.has = {}

\* C7: a mesh with neither representation makes mesh_edges fail with an
\* unsupported-mesh-format error at the point where the missing
\* representation is detected (the else of the SLM unwrapping, the else of
\* the dispatch), never reaching edge construction nor returning edges.
C7_FailsWhereDetected ==
    (op = "mesh_edges" /\ NoRepresentation(surf)) =>
        /\ ret.kind = "raise"
        /\ \/ surf.cls = "SLM" /\ ret.exc = "ValueError" /\ ret.at = "unwrap"
           \/ surf.cls = "dict" /\ ret.exc = "SystemExit" /\ ret.at = "else"

\* the dict case of C7: sys.exit at the else of the dispatch
C7_DictExits ==
    /\ op = "mesh_edges"
    /\ surf.cls = "dict" /\ surf.has = {"coord"}
    /\ ret.kind = "raise" /\ ret.exc = "SystemExit"

(***************************************************************************)
(* Claims about py_SurfStatLinMod                                          *)
(***************************************************************************)
Called == op = "py_SurfStatLinMod"

\* a design of one column of n ones
OnesColumn(n) == ArrayM2(Array([i \in 1..n |-> <<RInt(1)>>]))

\* the mean of column x of an (n, v) array
ColumnMean(Y2, x) ==
    RDiv(RSum(Array([i \in 1..Rows(Y2) |-> Y2[i][x]])), RInt(Rows(Y2)))

\* the sum over the observations of (Y[i][x] - mean of column x)^2
SquaredResiduals(Y2, x) ==
    LET m == ColumnMean(Y2, x)
    IN  RSum(Array([i \in 1..Rows(Y2) |-> RMul(RSub(Y2[i][x], m), RSub(Y2[i][x], m))]))

\* C8: for an (observations x vertices) response and a design of a single
\* all-ones column of n rows, the call returns df = n - 1, coef = one row
\* holding per vertex the mean of that vertex's column of Y, and SSE = one
\* row holding per vertex the sum over the observations of the squared
\* residuals; coef has as many rows as X has columns; and X = [[1],[1],[1]],
\* Y = [[2],[4],[6]] gives coef = [4], SSE = [8], df = 2.
C8_OnesColumnFit ==
    (Called /\ Yin.nd = 2 /\ M = OnesColumn(Len(Yin.a))) =>
        LET Y2 == AsObsArray(Yin)
            n == Rows(Y2)
            v == Cols(Y2)
        IN  /\ slm.kind = "return"
            /\ slm.df = n - 1
            /\ Len(slm.coef) = Cols(slm.X)
            /\ slm.coef = <<Array([x \in 1..v |-> ColumnMean(Y2, x)])>>
            /\ Len(slm.SSE) = 1
            /\ slm.SSE = <<Array([x \in 1..v |-> SquaredResiduals(Y2, x)])>>
            /\ Yin = ScenarioY =>
                   /\ slm.coef = <<<<RInt(4)>>>>
                   /\ slm.SSE = <<<<RInt(8)>>>>
                   /\ slm.df = 2

\* the scenario of C8 has been fitted
C8_Witness ==
    /\ Called
    /\ Yin = ScenarioY /\ M = OnesColumn(3)
    /\ slm.kind = "return" /\ slm.df = 2
    /\ slm.coef = <<<<RInt(4)>>>> /\ slm.SSE = <<<<RInt(8)>>>>

\* the residuals of component j of the response Yarg under the design Marg,
\* as exact numbers
ExactResidual(Yarg, Marg, j) ==
    LET Yj == Component(Yarg.a, j)
        X == DesignOf(Marg, Len(Yarg.a))
    IN  MatSub(Yj, Dot(X, Dot(Pinv(X), Yj)))

\* a design with as many rows as the response has observations
RowsAgree(Yarg, Marg) == Marg.nd = 2 => Len(Marg.a) = Len(Yarg.a)

\* C9: for every (n, v, k) response with k > 1, the call returns an SSE of
\* shape (k(k+1)/2, v) whose row of the pair (j1, j2), j2 <= j1, in the
\* packing order holds at each vertex the sum over the n observations of
\* the product of the residuals of components j1 and j2 at that vertex.
C9_PackedSSE ==
    (Called /\ Yin.nd = 3 /\ Yin.dtype = "float64" /\ RowsAgree(Yin, M)) =>
        LET n == Len(Yin.a)
            v == Len(Yin.a[1])
            k == Len(Yin.a[1][1])
            pairs == PackedPairs(k)
            r == Array([j \in 1..k |-> ExactResidual(Yin, M, j)])
        IN  /\ slm.kind = "return"
            /\ Len(slm.SSE) = (k * (k + 1)) \div 2
            /\ \A q \in 1..Len(slm.SSE) :
                   slm.SSE[q] = Array([x \in 1..v |->
                       RSum(Array([i \in 1..n |->
                           RMul(r[pairs[q][1]][i][x], r[pairs[q][2]][i][x])]))])

\* C10: after any call the caller's Y holds the values it held before the
\* call (M is never written: no action changes it).
C10_InputsUnchanged == Called => Y = Yin

\* a 2-D design whose number of rows differs from the observations of Y
RowsDiffer(Yarg, Marg) == Marg.nd = 2 /\ Len(Marg.a) # Len(Yarg.a)

\* C11: whenever the design matrix has a number of rows different from the
\* number of observations of Y, the call raises (a ValueError of numpy about
\* the shapes) and returns no fitted model, for every shape of Y, the
\* single-observation single-vertex one included; the caller's Y is as it
\* was.
C11_MismatchFails ==
    (Called /\ RowsDiffer(Yin, M)) =>
        /\ slm.kind = "raise"
        /\ slm.exc = "ValueError"
        /\ slm.coef = <<>> /\ slm.SSE = <<>>
        /\ Y = Yin

\* a design of three rows against one observation of one vertex, refused
\* where coef is stored
C11_Witness ==
    /\ Called
    /\ Yin.nd = 2 /\ Len(Yin.a) = 1 /\ Len(Yin.a[1]) = 1
    /\ M.nd = 2 /\ Len(M.a) = 3 /\ ~IsZero(M.a)
    /\ slm.kind = "raise" /\ slm.at = "line 94"

\* a design of one row against several observations, refused at np.dot
C11_WitnessDot ==
    /\ Called
    /\ Yin.nd = 2 /\ Len(Yin.a) = 3
    /\ M.nd = 2 /\ Len(M.a) = 1
    /\ slm.kind = "raise" /\ slm.at = "line 88"

\* the design the fit works on, for a response that is not multivariate
UnivariateDesign == DesignOf(M, Len(Yin.a))

\* C12: an entirely zero design makes the call fail and return no fitted
\* model, whereas a non-zero rank-deficient design yields a fitted model
\* with df = observations - rank(X).
C12_ZeroDesignFails ==
    (Called /\ Yin.nd # 3 /\ ~RowsDiffer(Yin, M)) =>
        /\ IsZero(UnivariateDesign) => slm.kind = "raise"
        /\ (~IsZero(UnivariateDesign) /\ Cols(UnivariateDesign) > 1) =>
               /\ slm.kind = "return"
               /\ slm.df = Len(Yin.a) - 1

\* the rank-deficient half of C12: a two-column design of rank 1 is fitted
C12_RankDeficientFitted ==
    /\ Called
    /\ Yin.nd = 2 /\ Len(Yin.a) = 3
    /\ M = ArrayM1(<<RInt(1), RInt(1)>>)
    /\ slm.kind = "return" /\ slm.df = 2

(***************************************************************************)
(* Claims about f_test                                                     *)
(***************************************************************************)
Compare == op = "f_test"

\* the model of the larger df, and the other one
ReducedOf(a, b) == IF a.df > b.df THEN a ELSE b
FullOf(a, b) == IF a.df > b.df THEN b ELSE a

\* C13: for two univariate models with df_reduced > df_full > 0, f_test
\* returns per vertex F = ((SSE_reduced - SSE_full) / (df_reduced -
\* df_full)) / (SSE_full / df_full) with df (df_reduced - df_full, df_full),
\* the roles decided by which df is larger and not by argument position:
\* f_test(slm2, slm1) gives the same F and df; df 5 / SSE 20 against
\* df 3 / SSE 6 gives F = 7/2 with df (2, 3).
C13_FTestByDf ==
    (Compare /\ slm1.df # slm2.df) =>
        LET r == ReducedOf(slm1, slm2)
            f == FullOf(slm1, slm2)
        IN  /\ ftest.kind = "return"
            /\ ftest.df = <<r.df - f.df, f.df>>
            /\ Len(ftest.F) = Len(f.SSE[1])
            /\ \A x \in DOMAIN ftest.F :
                   f.SSE[1][x] # RInt(0) =>
                       RMul(RMul(ftest.F[x], RInt(r.df - f.df)), f.SSE[1][x])
                           = RMul(RSub(r.SSE[1][x], f.SSE[1][x]), RInt(f.df))
            /\ f_test(slm2, slm1) = ftest
            /\ ({slm1, slm2} = {ScenarioReduced, ScenarioFull} =>
                   ftest.F = <<<<7, 2>>>> /\ ftest.df = <<2, 3>>)

\* the scenario of C13 with the full model given first
C13_Witness ==
    /\ Compare
    /\ slm1 = ScenarioFull /\ slm2 = ScenarioReduced
    /\ ftest.kind = "return"
    /\ ftest.F = <<<<7, 2>>>> /\ ftest.df = <<2, 3>>

(***************************************************************************)
(* Claims about the mask                                                   *)
(***************************************************************************)
\* the edges of the mesh when no mask is given
Unmasked == mesh_edges(surf, NoMask)

\* the rows of the unmasked edge list whose two endpoints are mask-true
UntouchedRows == SelectSeq(Unmasked.edg, BothTrue)

\* C14: for every mesh form mesh_edges accepts, when a mask is supplied the
\* returned edge list is the masked one: the edges of the mesh that touch
\* no vertex whose mask entry is false, renumbered by _mask_edges; an SLM
\* that only wraps a surface included.
C14_MaskSurvivesUnwrap ==
    (op = "mesh_edges" /\ mask.given /\ Unmasked.kind = "return") =>
        /\ ret.kind = "return"
        /\ Len(ret.edg) = Len(UntouchedRows)
        /\ ret.edg = _mask_edges(Unmasked.edg, mask.v).edges

\* the position of vertex x among the mask-true vertices
RankInMask(x) == Cardinality({q \in 0..(x - 1) : mask.v[q + 1]})

\* C15: after _mask_edges every endpoint of every kept edge is the position
\* of its original vertex among the mask-true vertices, also when some
\* mask-true vertex is touched by no kept edge.
C15_RenumberedByMask ==
    op = "_mask_edges" =>
        /\ Len(ret.edg) = Len(KeptRows)
        /\ \A r \in DOMAIN KeptRows : \A c \in {1, 2} :
               ret.edg[r][c] = RankInMask(KeptRows[r][c])

====
